---- MODULE Spec2Model ----
(***************************************************************************)
(* Verification model of the Computational Gut Decision System             *)
(* (first_gut.py, simple_game_gut.py).                                     *)
(*                                                                         *)
(* Number representation.  Every Python float is a fixed-point integer in  *)
(* thousandths (100.0 is 100000, 0.05 is 50, a survival rate of 1.0 is     *)
(* 1000).  A product or quotient is rounded to the nearest thousandth, as  *)
(* IEEE arithmetic rounds to the nearest representable value.  NaN is a    *)
(* distinguished value on which every ordered comparison is false.         *)
(*                                                                         *)
(* Random generator.  numpy's global generator is the pair (seed, pos):    *)
(* the seed it was last seeded with and the number of normal variates      *)
(* drawn since.  The variate at (seed, pos) is fixed but unknown: `stream` *)
(* holds the variates revealed so far, a first draw at a position picks    *)
(* any value of StdNormals and a later draw at that position replays it.   *)
(***************************************************************************)
EXTENDS Integers, Sequences, FiniteSets, TLC

VARIABLES
    pc,             \* position of the engine: idle, seed, generate, run_yes, ...
    args,           \* the six arguments of the current simulate_decision call
    rng,            \* np.random global state: [seed, pos]
    stream,         \* seed -> variates of that seed's stream revealed so far
    random_matrix,  \* random_matrix[i][t], i in 1..scenarios, t in 1..horizon
    decision,       \* argument of the current run_scenarios call
    decay_rate,     \* local of run_scenarios
    E,              \* E[i], energy of trajectory i
    alive,          \* alive[i]
    t,              \* number of loop bodies executed in the current run
    applied,        \* history: <<decision, i, t, noise>> added by line 53
    res,            \* [surv_yes, avg_yes, surv_no, avg_no] of the current call
    log,            \* history: the (args, result) of the completed calls, in order
    ncalls,         \* number of calls started
    scalars,        \* shell: the four scalars handed to the decision rule
    gut,            \* shell: decision printed by first_gut.py
    oracle          \* shell: decision printed by play_game

vars == <<pc, args, rng, stream, random_matrix, decision, decay_rate, E, alive,
          t, applied, res, log, ncalls, scalars, gut, oracle>>

engineVars == <<pc, args, rng, stream, random_matrix, decision, decay_rate, E,
                alive, t, applied, res, log, ncalls>>

shellVars == <<scalars, gut, oracle>>

-----------------------------------------------------------------------------
(* Bounds of the model *)

MaxScenarios == 2
MaxHorizon == 2
MaxCalls == 3

-----------------------------------------------------------------------------
(* Fixed-point arithmetic *)

None == "none"

\* float('nan'): np.mean of an empty array
NaN == 0 - 999999999

\* n / d rounded to the nearest integer
Round(n, d) == (2 * n + d) \div (2 * d)

\* product of two fixed-point numbers
Mul(a, b) == Round(a * b, 1000)

Max(a, b) == IF a >= b THEN a ELSE b

\* ordered comparisons of floats: false whenever an operand is NaN
Gt(a, b) == a # NaN /\ b # NaN /\ a > b

Ge(a, b) == a # NaN /\ b # NaN /\ a >= b

\* a - b on floats
Sub(a, b) == IF a = NaN \/ b = NaN THEN NaN ELSE a - b

RECURSIVE SumTo(_, _)
SumTo(f, n) == IF n = 0 THEN 0 ELSE f[n] + SumTo(f, n - 1)

\* np.mean of a float array
Mean(f) ==
    LET n == Cardinality(DOMAIN f)
    IN  IF n = 0 THEN NaN ELSE Round(SumTo(f, n), n)

-----------------------------------------------------------------------------
(* simulate_decision: the values computed before the runs *)

base_decay == 50

rand_mean == 0

cost(a) == Mul(a.initial_energy, a.cost_frac)

effective_decay(a) == Max(0, Mul(base_decay, 1000 - a.benefit_frac))

rand_stdIgnoringRisk(a) == Mul(100, a.initial_energy)

rand_std(a) == Mul(Mul(100, a.initial_energy), a.risk_frac)

\* the five values formatted into the seed key; scenarios is not one of them
seed_key(a) ==
    <<a.initial_energy, a.cost_frac, a.benefit_frac, a.risk_frac, a.horizon>>

RECURSIVE Digest(_, _)
\* stands for SHA-256 of the key reduced modulo 2^32: a fixed function of the
\* key and of nothing else
Digest(key, h) ==
    IF key = <<>> THEN h
    ELSE Digest(Tail(key), (h * 131 + (Head(key) % 65521) + 7) % 65521)

seed(a) == Digest(seed_key(a), 17)

\* the generator of a fresh process is seeded from operating-system entropy
EntropySeed == 0 - 1

\* the standard normal variates a draw may return (whole sigmas)
StdNormals == {0 - 5, 3}

Known(s) == IF s \in DOMAIN stream THEN stream[s] ELSE <<>>

\* np.random.seed(s)
SeedRngKeep(g, s) == g

SeedRng(g, s) == [seed |-> s, pos |-> 0]


\* positions pos+1 .. pos+n of the stream of g.seed, given the full stream
Variates(full, g, n) == [j \in 1..n |-> full[g.pos + j]]

\* np.random.normal(loc, scale, size=(rows, cols)): row-major fill
NormalMatrix(loc, scale, rows, cols, z) ==
    [i \in 1..rows |-> [tt \in 1..cols |-> loc + scale * z[(i - 1) * cols + tt]]]

\* numpy raises ValueError for a negative dimension or a negative scale
NormalRaises(scale, rows, cols) == cols < 0 \/ rows < 0 \/ scale < 0

-----------------------------------------------------------------------------
(* run_scenarios: the vector operations *)

ApplyCostAdded(e, c) == e + c

\* E -= cost
ApplyCost(e, c) == e - c

IsDeadStrict(e) == e < 0

\* E <= 0
IsDead(e) == e <= 0

AnyAliveIgnored(al) == TRUE

\* np.any(alive)
AnyAlive(al) == \E i \in DOMAIN al : al[i]

\* E and alive after "Apply initial decision effects"
InitE(a, dec) ==
    [i \in 1..a.scenarios |->
        IF dec
        THEN LET e == ApplyCost(a.initial_energy, cost(a))
             IN  IF IsDead(e) THEN 0 ELSE e
        ELSE a.initial_energy]

InitAlive(a, dec) ==
    [i \in 1..a.scenarios |->
        IF dec THEN ~IsDead(ApplyCost(a.initial_energy, cost(a))) ELSE TRUE]

InitDecay(a, dec) == IF dec THEN effective_decay(a) ELSE base_decay

\* E[alive] *= (1 - decay_rate)
Decayed(e, al, d) ==
    [i \in DOMAIN e |-> IF al[i] THEN Mul(e[i], 1000 - d) ELSE e[i]]

NoiseByRank(m, al, i, tt) == m[Cardinality({j \in 1..i : al[j]})][tt]

\* the entry of random_matrix[alive, t] that lands on trajectory i
NoiseFor(m, al, i, tt) == m[i][tt]

ShockedAll(e, al, m, tt) == [i \in DOMAIN e |-> e[i] + m[i][tt]]

\* E[alive] += random_matrix[alive, t]
Shocked(e, al, m, tt) ==
    [i \in DOMAIN e |-> IF al[i] THEN e[i] + NoiseFor(m, al, i, tt) ELSE e[i]]

\* E after decay and, when rand_std > 0, the random fluctuation
Moved(e, al, d, m, tt, std) ==
    IF std > 0 THEN Shocked(Decayed(e, al, d), al, m, tt) ELSE Decayed(e, al, d)

\* newly_dead = (E <= 0) & alive
NewlyDead(e, al) == [i \in DOMAIN e |-> IsDead(e[i]) /\ al[i]]

\* E and alive after one body of the step loop
StepE(e, al, d, m, tt, std) ==
    LET e2 == Moved(e, al, d, m, tt, std)
        nd == NewlyDead(e2, al)
    IN  [i \in DOMAIN e |-> IF nd[i] THEN 0 ELSE e2[i]]

StepAlive(e, al, d, m, tt, std) ==
    LET e2 == Moved(e, al, d, m, tt, std)
        nd == NewlyDead(e2, al)
    IN  [i \in DOMAIN e |-> al[i] /\ ~nd[i]]

PositiveOrZero(e) == e >= 0

\* E > 0
Positive(e) == e > 0

\* np.mean(E > 0)
survival_rate(e) == Mean([i \in DOMAIN e |-> IF Positive(e[i]) THEN 1000 ELSE 0])

\* np.mean(E)
avg_final_energy(e) == Mean(e)

NoRes == [surv_yes |-> None, avg_yes |-> None, surv_no |-> None, avg_no |-> None]

-----------------------------------------------------------------------------
(* The engine's steps *)

\* simulate_decision is entered with arguments a
Call(a) ==
    /\ pc = "idle"
    /\ pc' = "seed"
    /\ args' = a
    /\ ncalls' = ncalls + 1
    /\ res' = NoRes
    /\ applied' = {}
    /\ UNCHANGED <<rng, stream, random_matrix, decision, decay_rate, E, alive,
                   t, log, shellVars>>

\* np.random.seed(seed)
Seed ==
    /\ pc = "seed"
    /\ pc' = "generate"
    /\ rng' = SeedRng(rng, seed(args))
    /\ UNCHANGED <<args, stream, random_matrix, decision, decay_rate, E, alive,
                   t, applied, res, log, ncalls, shellVars>>

\* random_matrix = np.random.normal(...)
Generate ==
    /\ pc = "generate"
    /\ ~NormalRaises(rand_std(args), args.scenarios, args.horizon)
    /\ LET n == args.scenarios * args.horizon
           known == Known(rng.seed)
           missing == Max(0, rng.pos + n - Len(known))
       IN  \E fresh \in [1..missing -> StdNormals] :
             LET full == known \o fresh
             IN  /\ random_matrix' =
                        NormalMatrix(rand_mean, rand_std(args), args.scenarios,
                                     args.horizon, Variates(full, rng, n))
                 /\ stream' = IF missing = 0 THEN stream
                              ELSE (rng.seed :> full) @@ stream
                 /\ rng' = [rng EXCEPT !.pos = rng.pos + n]
    /\ pc' = "run_yes"
    /\ UNCHANGED <<args, decision, decay_rate, E, alive, t, applied, res, log,
                   ncalls, shellVars>>

\* np.random.normal raises ValueError, which leaves simulate_decision
GenerateRaises ==
    /\ pc = "generate"
    /\ NormalRaises(rand_std(args), args.scenarios, args.horizon)
    /\ pc' = "raised"
    /\ UNCHANGED <<args, rng, stream, random_matrix, decision, decay_rate, E,
                   alive, t, applied, res, log, ncalls, shellVars>>

\* run_scenarios(decision) up to the step loop
RunInit ==
    /\ pc \in {"run_yes", "run_no"}
    /\ decision' = (pc = "run_yes")
    /\ E' = InitE(args, decision')
    /\ alive' = InitAlive(args, decision')
    /\ decay_rate' = InitDecay(args, decision')
    /\ t' = 0
    /\ pc' = "loop"
    /\ UNCHANGED <<args, rng, stream, random_matrix, applied, res, log, ncalls,
                   shellVars>>

\* one body of "for t in range(horizon)"
Step ==
    /\ pc = "loop"
    /\ t < args.horizon
    /\ AnyAlive(alive)
    /\ E' = StepE(E, alive, decay_rate, random_matrix, t + 1, rand_std(args))
    /\ alive' = StepAlive(E, alive, decay_rate, random_matrix, t + 1, rand_std(args))
    /\ applied' = IF rand_std(args) > 0
                  THEN applied \cup
                       {<<decision, i, t + 1, NoiseFor(random_matrix, alive, i, t + 1)>> :
                            i \in {j \in DOMAIN E : alive[j]}}
                  ELSE applied
    /\ t' = t + 1
    /\ UNCHANGED <<pc, args, rng, stream, random_matrix, decision, decay_rate,
                   res, log, ncalls, shellVars>>

\* "if not np.any(alive): break"
Break ==
    /\ pc = "loop"
    /\ t < args.horizon
    /\ ~AnyAlive(alive)
    /\ pc' = "reduce"
    /\ UNCHANGED <<args, rng, stream, random_matrix, decision, decay_rate, E,
                   alive, t, applied, res, log, ncalls, shellVars>>

\* range(horizon) is exhausted
LoopEnd ==
    /\ pc = "loop"
    /\ t >= args.horizon
    /\ pc' = "reduce"
    /\ UNCHANGED <<args, rng, stream, random_matrix, decision, decay_rate, E,
                   alive, t, applied, res, log, ncalls, shellVars>>

\* "Calculate outcome metrics" and the return of run_scenarios
Reduce ==
    /\ pc = "reduce"
    /\ res' = IF decision
              THEN [res EXCEPT !.surv_yes = survival_rate(E),
                               !.avg_yes = avg_final_energy(E)]
              ELSE [res EXCEPT !.surv_no = survival_rate(E),
                               !.avg_no = avg_final_energy(E)]
    /\ pc' = IF decision THEN "run_no" ELSE "return"
    /\ UNCHANGED <<args, rng, stream, random_matrix, decision, decay_rate, E,
                   alive, t, applied, log, ncalls, shellVars>>

\* "return surv_yes, surv_no, avg_yes, avg_no": the locals are discarded
Return ==
    /\ pc = "return"
    /\ log' = Append(log, [args |-> args, res |-> res])
    /\ pc' = "idle"
    /\ args' = None
    /\ res' = NoRes
    /\ random_matrix' = <<>>
    /\ E' = <<>>
    /\ alive' = <<>>
    /\ decision' = FALSE
    /\ decay_rate' = 0
    /\ t' = 0
    /\ applied' = {}
    /\ UNCHANGED <<rng, stream, ncalls, shellVars>>

-----------------------------------------------------------------------------
(* Arguments *)

Args(es, cs, bs, rs, hs, ns) ==
    [initial_energy : es, cost_frac : cs, benefit_frac : bs, risk_frac : rs,
     horizon : hs, scenarios : ns]

\* initial_energy = 100.0, the value both shells pass
ShellEnergy == {100000}

\* in-domain arguments: fractions in [0,1], horizon >= 0, scenarios >= 1
DomainArgs ==
    Args(ShellEnergy, {500, 900, 1000}, {500, 1000}, {0, 1000},
         0..MaxHorizon, 1..MaxScenarios)

InitEngine ==
    /\ pc = "idle"
    /\ args = None
    /\ rng = [seed |-> EntropySeed, pos |-> 0]
    /\ stream = <<>>
    /\ random_matrix = <<>>
    /\ decision = FALSE
    /\ decay_rate = 0
    /\ E = <<>>
    /\ alive = <<>>
    /\ t = 0
    /\ applied = {}
    /\ res = NoRes
    /\ log = <<>>
    /\ ncalls = 0

Init ==
    /\ InitEngine
    /\ scalars = None
    /\ gut = None
    /\ oracle = None

\* one call of simulate_decision in a fresh process
Next ==
    \/ \E a \in DomainArgs : ncalls = 0 /\ Call(a)
    \/ Seed
    \/ Generate
    \/ RunInit
    \/ Step
    \/ Break
    \/ LoopEnd
    \/ Reduce
    \/ Return

Spec == Init /\ [][Next]_vars


-----------------------------------------------------------------------------
(* Repeated calls in one process: the generator's state outlives a call *)

RepeatArgs ==
    Args(ShellEnergy, {800, 900, 1000}, {500}, {1000}, {1}, {1, 2})
    \cup Args(ShellEnergy, {800, 900, 1000}, {500}, {0}, {1}, {1})

NextRepeat ==
    \/ \E a \in RepeatArgs : ncalls < MaxCalls /\ Call(a)
    \/ Seed
    \/ Generate
    \/ RunInit
    \/ Step
    \/ Break
    \/ LoopEnd
    \/ Reduce
    \/ Return

SpecRepeat == Init /\ [][NextRepeat]_vars

-----------------------------------------------------------------------------
(* Calls with arguments the shells do not keep out *)

OpenArgs ==
    Args(ShellEnergy, {0 - 500, 500, 1500}, {0 - 500, 500, 1500},
         {0 - 500, 0, 1000, 1500}, {0 - 1, 0, 1}, {0, 1, 2})

InDomain(a) ==
    /\ a.initial_energy > 0
    /\ a.cost_frac \in 0..1000
    /\ a.benefit_frac \in 0..1000
    /\ a.risk_frac \in 0..1000
    /\ a.horizon >= 0
    /\ a.scenarios >= 1

NextOpen ==
    \/ \E a \in OpenArgs : ncalls = 0 /\ Call(a)
    \/ Seed
    \/ Generate
    \/ GenerateRaises
    \/ RunInit
    \/ Step
    \/ Break
    \/ LoopEnd
    \/ Reduce
    \/ Return

SpecOpen == Init /\ [][NextOpen]_vars

-----------------------------------------------------------------------------
(* The shells' decision rule *)

tolerance == 10

GutDecisionStrictTie(sy, sn, ay, an) ==
    IF Gt(Sub(sy, sn), tolerance) THEN "YES"
    ELSE IF Gt(Sub(sn, sy), tolerance) THEN "NO"
    ELSE IF Gt(ay, an) THEN "YES" ELSE "NO"

\* first_gut.py, main loop
GutDecision(sy, sn, ay, an) ==
    IF Gt(Sub(sy, sn), tolerance) THEN "YES"
    ELSE IF Gt(Sub(sn, sy), tolerance) THEN "NO"
    ELSE IF Ge(ay, an) THEN "YES" ELSE "NO"

\* simple_game_gut.py, play_game
OracleDecision(sy, sn, ay, an) ==
    IF Gt(Sub(sy, sn), tolerance) THEN "YES"
    ELSE IF Gt(Sub(sn, sy), tolerance) THEN "NO"
    ELSE IF Ge(ay, an) THEN "YES" ELSE "NO"

GutDecide ==
    /\ gut = None
    /\ gut' = GutDecision(scalars.surv_yes, scalars.surv_no,
                          scalars.avg_yes, scalars.avg_no)
    /\ UNCHANGED <<engineVars, scalars, oracle>>

OracleDecide ==
    /\ oracle = None
    /\ oracle' = OracleDecision(scalars.surv_yes, scalars.surv_no,
                                scalars.avg_yes, scalars.avg_no)
    /\ UNCHANGED <<engineVars, scalars, gut>>

\* survival rates and average energies handed to the rule
Rates == {0, 490, 500, 510, 511, 1000, NaN}

Energies == {0, 59870, 62190, NaN}

InitShell ==
    /\ InitEngine
    /\ scalars \in [surv_yes : Rates, surv_no : Rates,
                    avg_yes : Energies, avg_no : Energies]
    /\ gut = None
    /\ oracle = None

NextShell == GutDecide \/ OracleDecide

SpecShell == InitShell /\ [][NextShell]_vars


-----------------------------------------------------------------------------
(* Properties *)

InRun == pc \in {"loop", "reduce"}

Trajectories == DOMAIN E

YesEntries == {x \in applied : x[1]}

NoEntries == {x \in applied : ~x[1]}

Entry(k) == log[k]

\* C1: death is absorbing.  Within one run of run_scenarios, a trajectory that
\* is dead with energy 0 is still dead with energy exactly 0 after every later
\* step of that run, whatever noise the matrix holds for it.
C1_DeathAbsorbing ==
    [][(InRun /\ pc' \in {"loop", "reduce"}) =>
          \A i \in Trajectories :
              (~alive[i] /\ E[i] = 0) => (~alive'[i] /\ E'[i] = 0)]_vars

\* A run in which trajectory i died at step 1, step 2 was then executed with
\* noise for a surviving trajectory j, and i is still dead at 0.
C1_Witness ==
    /\ pc = "loop"
    /\ t = 2
    /\ \E i, j \in Trajectories :
          /\ ~alive[i] /\ E[i] = 0
          /\ \E x \in applied : x[1] = decision /\ x[2] = i /\ x[3] = 1
          /\ ~\E x \in applied : x[1] = decision /\ x[2] = i /\ x[3] = 2
          /\ \E x \in applied : x[1] = decision /\ x[2] = j /\ x[3] = 2 /\ x[4] # 0

\* C2: shared noise.  Every noise value added to trajectory i at step t, in
\* the YES run or in the NO run, is entry (i, t) of the one matrix generated
\* before both runs; so the YES run and the NO run add the same value to
\* trajectory i at step t whenever both add one.
C2_SharedNoise ==
    /\ \A x \in applied : x[4] = random_matrix[x[2]][x[3]]
    /\ \A x \in YesEntries : \A y \in NoEntries :
          (x[2] = y[2] /\ x[3] = y[3]) => x[4] = y[4]

\* Both runs are over; trajectory 2 received noise at step 2 in both runs,
\* trajectory 1 only in the NO run, and the two rows of the matrix differ there.
C2_Witness ==
    /\ pc = "return"
    /\ args.scenarios = 2
    /\ \E x \in YesEntries : x[2] = 2 /\ x[3] = 2
    /\ \E y \in NoEntries : y[2] = 2 /\ y[3] = 2
    /\ \E y \in NoEntries : y[2] = 1 /\ y[3] = 2
    /\ ~\E x \in YesEntries : x[2] = 1 /\ x[3] = 2
    /\ random_matrix[1][2] # random_matrix[2][2]

\* C3: determinism.  Any two completed calls with the same six arguments
\* returned the same four values, whatever was called before or in between.
C3_Determinism ==
    \A k, l \in 1..Len(log) :
        Entry(k).args = Entry(l).args => Entry(k).res = Entry(l).res

\* Three calls: the first and the third with the same arguments and a nonzero
\* risk, the second with another seed key.
C3_Witness ==
    /\ Len(log) = 3
    /\ Entry(1).args = Entry(3).args
    /\ Entry(1).args.risk_frac > 0
    /\ Entry(1).args.scenarios = 2
    /\ seed_key(Entry(2).args) # seed_key(Entry(1).args)

SameButCost(a, b) ==
    /\ a.initial_energy = b.initial_energy
    /\ a.benefit_frac = b.benefit_frac
    /\ a.risk_frac = b.risk_frac
    /\ a.horizon = b.horizon
    /\ a.scenarios = b.scenarios

NotBetter(hi, lo) ==
    /\ hi.res.surv_yes <= lo.res.surv_yes
    /\ hi.res.avg_yes <= lo.res.avg_yes

\* C4 as stated: monotonicity in cost.  Of two completed calls that differ in
\* cost_frac only, the one with the larger cost_frac returned a survival_yes
\* and an avg_yes no greater than the other's.
C4_CostMonotone ==
    \A k, l \in 1..Len(log) :
        (SameButCost(Entry(k).args, Entry(l).args)
            /\ Entry(k).args.cost_frac <= Entry(l).args.cost_frac)
        => NotBetter(Entry(l), Entry(k))

\* C4 as amended: monotonicity in cost when risk_frac = 0.  Of two completed
\* calls with risk_frac = 0 that differ in cost_frac only, the one with the
\* larger cost_frac returned a survival_yes and an avg_yes no greater than
\* the other's.
C4_CostMonotoneZeroRisk ==
    \A k, l \in 1..Len(log) :
        (SameButCost(Entry(k).args, Entry(l).args)
            /\ Entry(k).args.risk_frac = 0
            /\ Entry(k).args.cost_frac <= Entry(l).args.cost_frac)
        => NotBetter(Entry(l), Entry(k))

\* Two calls at zero risk, the second with the larger cost and a strictly
\* smaller average energy, both surviving.
C4_Witness ==
    \E k, l \in 1..Len(log) :
        /\ SameButCost(Entry(k).args, Entry(l).args)
        /\ Entry(k).args.risk_frac = 0
        /\ Entry(k).args.cost_frac < Entry(l).args.cost_frac
        /\ Entry(l).res.avg_yes < Entry(k).res.avg_yes
        /\ Entry(l).res.surv_yes = 1000

\* C5: immediate death.  With cost_frac = 1 every trajectory of the YES run is
\* dead at energy 0 after the upfront cost, the loop is left before any body
\* runs, no noise is added, and the call returns survival_yes = 0, avg_yes = 0.
C5_ImmediateDeath ==
    /\ (pc \notin {"idle", "raised"} /\ args.cost_frac = 1000) =>
          /\ YesEntries = {}
          /\ (InRun /\ decision) =>
                /\ t = 0
                /\ \A i \in Trajectories : ~alive[i] /\ E[i] = 0
          /\ (pc \in {"run_no", "return"} \/ (InRun /\ ~decision)) =>
                (res.surv_yes = 0 /\ res.avg_yes = 0)
    /\ \A k \in 1..Len(log) :
          Entry(k).args.cost_frac = 1000 =>
              (Entry(k).res.surv_yes = 0 /\ Entry(k).res.avg_yes = 0)

\* A completed call with cost_frac = 1, full risk, two trajectories and the
\* longest horizon.
C5_Witness ==
    \E k \in 1..Len(log) :
        /\ Entry(k).args.cost_frac = 1000
        /\ Entry(k).args.risk_frac = 1000
        /\ Entry(k).args.horizon = MaxHorizon
        /\ Entry(k).args.scenarios = MaxScenarios
        /\ Entry(k).res.surv_no = 1000

\* C6: zero horizon.  With horizon = 0 no loop body runs in either run and the
\* call returns survival_no = 1, avg_no = initial_energy, and for the YES run
\* survival 1 and initial_energy - initial_energy*cost_frac when that is > 0,
\* otherwise survival 0 and average 0.
C6_ZeroHorizon ==
    /\ (pc \notin {"idle", "raised"} /\ args.horizon = 0) =>
          (t = 0 /\ applied = {})
    /\ \A k \in 1..Len(log) :
          LET a == Entry(k).args
              r == Entry(k).res
              left == a.initial_energy - Mul(a.initial_energy, a.cost_frac)
          IN  a.horizon = 0 =>
                /\ r.surv_no = 1000
                /\ r.avg_no = a.initial_energy
                /\ r.surv_yes = (IF left > 0 THEN 1000 ELSE 0)
                /\ r.avg_yes = (IF left > 0 THEN left ELSE 0)

\* A completed call with horizon 0 and full risk whose upfront cost of 90
\* leaves energy 10 on every trajectory.
C6_Witness ==
    \E k \in 1..Len(log) :
        /\ Entry(k).args.horizon = 0
        /\ Entry(k).args.risk_frac = 1000
        /\ Entry(k).args.scenarios = MaxScenarios
        /\ Entry(k).args.cost_frac = 900
        /\ Entry(k).res.avg_yes = 10000

\* C7: zero risk.  With risk_frac = 0 no noise is added, all trajectories of a
\* run hold the same energy and the same alive flag after every step, and
\* both returned survival rates are exactly 0 or exactly 1.
C7_ZeroRisk ==
    /\ (pc \notin {"idle", "raised"} /\ args.risk_frac = 0) =>
          /\ applied = {}
          /\ InRun => \A i, j \in Trajectories :
                          E[i] = E[j] /\ alive[i] = alive[j]
    /\ \A k \in 1..Len(log) :
          Entry(k).args.risk_frac = 0 =>
              /\ Entry(k).res.surv_yes \in {0, 1000}
              /\ Entry(k).res.surv_no \in {0, 1000}

\* A completed zero-risk call over several trajectories and steps in which
\* the YES run survived with decayed energy.
C7_Witness ==
    \E k \in 1..Len(log) :
        /\ Entry(k).args.risk_frac = 0
        /\ Entry(k).args.scenarios = MaxScenarios
        /\ Entry(k).args.horizon = MaxHorizon
        /\ Entry(k).args.benefit_frac = 500
        /\ Entry(k).res.surv_yes = 1000
        /\ Entry(k).res.avg_yes < 10000

Decided(d) ==
    LET sy == scalars.surv_yes
        sn == scalars.surv_no
        yesWins == Gt(Sub(sy, sn), tolerance)
        noWins == Gt(Sub(sn, sy), tolerance)
    IN  /\ d \in {"YES", "NO"}
        /\ yesWins => d = "YES"
        /\ (~yesWins /\ noWins) => d = "NO"
        /\ (~yesWins /\ ~noWins) =>
              (d = "YES" <=> Ge(scalars.avg_yes, scalars.avg_no))

\* C8: decision rule.  For every four scalars each shell prints YES or NO and
\* nothing else: YES when survival_yes - survival_no > 0.01, NO when
\* survival_no - survival_yes > 0.01, otherwise YES exactly when
\* avg_yes >= avg_no; and the two shells print the same.
C8_DecisionRule ==
    /\ gut # None => Decided(gut)
    /\ oracle # None => Decided(oracle)
    /\ (gut # None /\ oracle # None) => gut = oracle

\* Both shells have decided a tie on survival with equal average energies.
C8_Witness ==
    /\ gut = "YES"
    /\ oracle = "YES"
    /\ scalars.surv_yes = 500
    /\ scalars.surv_no = 510
    /\ scalars.avg_yes = scalars.avg_no
    /\ scalars.avg_yes = 59870

\* C9: out-of-domain inputs are rejected.  A call whose arguments are outside
\* the domain (negative horizon, zero scenarios, a fraction outside [0,1])
\* never returns four summary scalars.
C9_OutOfDomainRejected ==
    \A k \in 1..Len(log) : InDomain(Entry(k).args)

\* C10: alive iff positive.  After the initial-cost phase and after every loop
\* body, alive[i] holds exactly when E[i] > 0 and E[i] is never negative; the
\* survival rate computed from E > 0 is the fraction of alive flags; and once
\* no trajectory is alive the remaining loop bodies would change nothing.
C10_AliveIffPositive ==
    InRun =>
        /\ \A i \in Trajectories : (alive[i] <=> E[i] > 0) /\ E[i] >= 0
        /\ Cardinality(DOMAIN E) > 0 =>
              survival_rate(E) = Mean([i \in Trajectories |->
                                          IF alive[i] THEN 1000 ELSE 0])
        /\ ~(\E i \in Trajectories : alive[i]) =>
              \A tt \in (t + 1)..args.horizon :
                  /\ StepE(E, alive, decay_rate, random_matrix, tt,
                           rand_std(args)) = E
                  /\ StepAlive(E, alive, decay_rate, random_matrix, tt,
                               rand_std(args)) = alive

\* Every trajectory died of noise in the first loop body and steps remain.
C10_Witness ==
    /\ pc = "loop"
    /\ t = 1
    /\ t < args.horizon
    /\ args.scenarios = MaxScenarios
    /\ args.cost_frac < 1000
    /\ \A i \in Trajectories : ~alive[i] /\ E[i] = 0

====
